---------------------------- MODULE Spec2Model ----------------------------
(***************************************************************************)
(* SMLReader (src/main.cpp): a serial byte stream from a smart meter is    *)
(* framed into SML datagrams by a function-pointer state machine, checked  *)
(* with CRC-16/X.25, searched for three metric patterns whose TLV fields   *)
(* are walked with a raw pointer, and the scaled values are written to the *)
(* four 32-bit user registers of an emulated BAE910.                       *)
(***************************************************************************)
EXTENDS Integers, Sequences, FiniteSets, TLC

(***************************************************************************)
(* Program constants (main.cpp lines 14-17, 32-35, 49-51).                 *)
(***************************************************************************)
START_SEQUENCE == <<27, 27, 27, 27, 1, 1, 1, 1>>
END_SEQUENCE == <<27, 27, 27, 27, 26>>
BUFFER_SIZE == 3840
READ_TIMEOUT == 30
METRICS ==
  <<  <<119, 7, 1, 0, 1, 8, 0, 255>>,
      <<119, 7, 1, 0, 2, 8, 0, 255>>,
      <<119, 7, 1, 0, 16, 7, 0, 255>>  >>
METRIC_LENGTH == Len(METRICS)
START_SEQUENCE_LENGTH == Len(START_SEQUENCE)
END_SEQUENCE_LENGTH == Len(END_SEQUENCE)

\* The states are the four functions the pointer `state` can hold.
WaitStart == "wait_for_start_sequence"
Accumulate == "read_message"
AwaitTail == "read_checksum"
Done == "process_message"

(***************************************************************************)
(* Bounds of the model.                                                    *)
(***************************************************************************)
\* bytes the serial receive queue holds before the meter has to wait
MaxRx == 2
\* how many times the clock advances in a run
MaxClock == 4
\* longest run of noise bytes before a datagram
MaxNoise == 1
\* bytes that arrive together while loop() is busy outside run_current_state
MaxBurst == 16
\* largest magnitude of a metered value, and most decimals of a scaler
MaxValue == 6
MaxDecimals == 5
MaxPayload == 3
\* milliseconds by which one step of the clock advances millis()
TimeStep == 10000

\* F of the value of e: a local that is computed once, then named
Bind(e, F(_)) == CHOOSE r \in { F(x) : x \in {e} } : TRUE

(***************************************************************************)
(* Bit operations on non-negative integers.                                *)
(***************************************************************************)
RECURSIVE BitXor(_, _)
BitXor(a, b) ==
  IF a = 0 THEN b
  ELSE IF b = 0 THEN a
  ELSE (((a % 2) + (b % 2)) % 2) + 2 * BitXor(a \div 2, b \div 2)

\* x & 0x0f and x & 0x70 of a byte
LowNibble(x) == x % 16
TypeBits(x) == ((x \div 16) % 8) * 16

(***************************************************************************)
(* CRC16.x25 of the FastCRC library: CRC-16/X-25, reflected polynomial     *)
(* 0x8408, initial value 0xFFFF, final xor 0xFFFF.                         *)
(***************************************************************************)
RECURSIVE CrcBits(_, _)
CrcBits(crc, k) ==
  IF k = 0 THEN crc
  ELSE CrcBits(IF crc % 2 = 1 THEN BitXor(crc \div 2, 33800) ELSE crc \div 2, k - 1)

\* the library's lookup table: the CRC register after eight shifts of a byte
CrcTable == [b \in 0..255 |-> CrcBits(b, 8)]

\* ^ on bytes, tabulated by nibbles
XorNibble == [a \in 0..15 |-> [b \in 0..15 |-> BitXor(a, b)]]
XorByte(a, b) == XorNibble[a \div 16][b \div 16] * 16 + XorNibble[a % 16][b % 16]

\* crc = table[(crc ^ b) & 0xff] ^ (crc >> 8)
CrcByte(crc, b) ==
  Bind(CrcTable[XorByte(crc % 256, b)],
       LAMBDA t : (t \div 256) * 256 + XorByte(t % 256, crc \div 256))

\* the running CRC over buf[lo .. hi-1], started from crc
RECURSIVE CrcRange(_, _, _, _)
CrcRange(buf, crc, lo, hi) ==
  IF hi <= lo THEN crc
  ELSE IF hi = lo + 1 THEN CrcByte(crc, buf[lo])
  ELSE LET mid == (lo + hi) \div 2
       IN Bind(CrcRange(buf, crc, lo, mid), LAMBDA left : CrcRange(buf, left, mid, hi))

\* CRC16.x25(buffer, len): buf is indexed from 0
\* for a 16-bit crc, crc ^ 0xFFFF is 65535 - crc
x25(buf, len) == 65535 - CrcRange(buf, 65535, 0, len)


(***************************************************************************)
(* State.  The globals of main.cpp, the serial receive queue behind        *)
(* data_available()/data_read(), the BAE910 registers and Serial's output. *)
(***************************************************************************)
VARIABLES
  state,                \* void (*state)(): the current state function
  buffer,               \* byte buffer[BUFFER_SIZE], indexed from 0
  position,             \* int position
  bytes_until_checksum, \* uint8_t bytes_until_checksum
  elapsed,              \* millis() - last_state_reset, in milliseconds
  rx,                   \* bytes received by `sensor` and not yet read
  stream,               \* what the meter sends: head, then n times fill, then tail
  sent,                 \* how many bytes of stream have reached rx
  clock,                \* how many times the clock has advanced
  out,                  \* lines Serial printed during the latest loop() pass
  regs,                 \* owBae910.memory.field.userm, usern, usero, userp
  values,               \* the stack memory of process_message's values[]
  max_read,             \* highest buffer index the latest pass read through cp, or -1
  accepted              \* the datagrams whose checksum process_message accepted

vars == <<state, buffer, position, bytes_until_checksum, elapsed, rx, stream, sent,
          clock, out, regs, values, max_read, accepted>>

\* the mutable program state as one value, threaded through the functions
Machine ==
  [state |-> state, buffer |-> buffer, position |-> position,
   bytes_until_checksum |-> bytes_until_checksum, elapsed |-> elapsed,
   rx |-> rx, out |-> out, regs |-> regs, values |-> values,
   max_read |-> max_read, accepted |-> accepted]

data_available(m) == m.rx # <<>>

println(m, line) == [m EXCEPT !.out = Append(@, line)]

(***************************************************************************)
(* set_state and reset                                                     *)
(***************************************************************************)
\* set_state that empties the buffer when read_message is entered
set_state_clearing(m, new_state) ==
  LET m1 == IF new_state = WaitStart
              THEN [println(m, "State is 'wait_for_start_sequence'.")
                      EXCEPT !.elapsed = 0, !.position = 0]
            ELSE IF new_state = Accumulate
              THEN [println(m, "State is 'read_message'.") EXCEPT !.position = 0]
            ELSE IF new_state = AwaitTail
              THEN [println(m, "State is 'read_checksum'.")
                      EXCEPT !.bytes_until_checksum = 3]
            ELSE println(m, "State is 'process_message'.")
  IN [m1 EXCEPT !.state = new_state]

set_state(m, new_state) ==
  LET m1 == IF new_state = WaitStart
              THEN [println(m, "State is 'wait_for_start_sequence'.")
                      EXCEPT !.elapsed = 0, !.position = 0]
            ELSE IF new_state = Accumulate
              THEN println(m, "State is 'read_message'.")
            ELSE IF new_state = AwaitTail
              THEN [println(m, "State is 'read_checksum'.")
                      EXCEPT !.bytes_until_checksum = 3]
            ELSE println(m, "State is 'process_message'.")
  IN [m1 EXCEPT !.state = new_state]

reset(m, message) ==
  set_state(IF message # "" THEN println(m, message) ELSE m, WaitStart)

(***************************************************************************)
(* The framer: wait_for_start_sequence, read_message, read_checksum        *)
(***************************************************************************)
\* wait_for_start_sequence that takes a mismatching byte as a possible first
\* byte of the start sequence
RECURSIVE wait_for_start_sequence_rescan(_)
wait_for_start_sequence_rescan(m) ==
  IF ~data_available(m) THEN m
  ELSE LET b == Head(m.rx)
           pos == IF b = START_SEQUENCE[m.position + 1] THEN m.position + 1
                  ELSE IF b = START_SEQUENCE[1] THEN 1 ELSE 0
       IN Bind([m EXCEPT !.rx = Tail(@), !.buffer[m.position] = b, !.position = pos],
               LAMBDA m1 : IF m1.position = START_SEQUENCE_LENGTH
                             THEN set_state(m1, Accumulate)
                             ELSE wait_for_start_sequence_rescan(m1))

\* wait_for_start_sequence that drops a partial match when the input runs out
RECURSIVE wait_for_start_sequence_forgetful(_)
wait_for_start_sequence_forgetful(m) ==
  IF ~data_available(m) THEN [m EXCEPT !.position = 0]
  ELSE LET b == Head(m.rx)
           pos == IF b = START_SEQUENCE[m.position + 1] THEN m.position + 1 ELSE 0
       IN Bind([m EXCEPT !.rx = Tail(@), !.buffer[m.position] = b, !.position = pos],
               LAMBDA m1 : IF m1.position = START_SEQUENCE_LENGTH
                             THEN set_state(m1, Accumulate)
                             ELSE wait_for_start_sequence_forgetful(m1))

RECURSIVE wait_for_start_sequence(_)
wait_for_start_sequence(m) ==
  IF ~data_available(m) THEN m
  ELSE LET b == Head(m.rx)
           pos == IF b = START_SEQUENCE[m.position + 1] THEN m.position + 1 ELSE 0
       IN Bind([m EXCEPT !.rx = Tail(@), !.buffer[m.position] = b, !.position = pos],
               LAMBDA m1 : IF m1.position = START_SEQUENCE_LENGTH
                             THEN set_state(m1, Accumulate)
                             ELSE wait_for_start_sequence(m1))

\* the backward comparison of the bytes before pos with END_SEQUENCE
EndSequenceAt(buf, pos) ==
  \A i \in 0..(END_SEQUENCE_LENGTH - 1) :
     END_SEQUENCE[END_SEQUENCE_LENGTH - i] = buf[pos - (i + 1)]

\* read_message with the overflow test one byte late
RECURSIVE read_message_late(_)
read_message_late(m) ==
  IF ~data_available(m) THEN m
  ELSE IF m.position + 2 = BUFFER_SIZE
    THEN reset(m, "Buffer will overflow, starting over.")
  ELSE Bind([m EXCEPT !.rx = Tail(@), !.buffer[m.position] = Head(m.rx),
                      !.position = @ + 1],
            LAMBDA m1 : IF EndSequenceAt(m1.buffer, m1.position)
                          THEN set_state(m1, AwaitTail)
                          ELSE read_message_late(m1))

\* read_message without the overflow test
RECURSIVE read_message_unbounded(_)
read_message_unbounded(m) ==
  IF ~data_available(m) THEN m
  ELSE Bind([m EXCEPT !.rx = Tail(@), !.buffer[m.position] = Head(m.rx),
                      !.position = @ + 1],
            LAMBDA m1 : IF EndSequenceAt(m1.buffer, m1.position)
                          THEN set_state(m1, AwaitTail)
                          ELSE read_message_unbounded(m1))

RECURSIVE read_message(_)
read_message(m) ==
  IF ~data_available(m) THEN m
  ELSE IF m.position + 3 = BUFFER_SIZE
    THEN reset(m, "Buffer will overflow, starting over.")
  ELSE Bind([m EXCEPT !.rx = Tail(@), !.buffer[m.position] = Head(m.rx),
                      !.position = @ + 1],
            LAMBDA m1 : IF EndSequenceAt(m1.buffer, m1.position)
                          THEN set_state(m1, AwaitTail)
                          ELSE read_message(m1))

\* read_checksum that takes the datagram as complete one byte early
RECURSIVE read_checksum_short(_)
read_checksum_short(m) ==
  IF m.bytes_until_checksum > 1 /\ data_available(m)
    THEN Bind([m EXCEPT !.rx = Tail(@), !.buffer[m.position] = Head(m.rx),
                         !.position = @ + 1, !.bytes_until_checksum = @ - 1],
              LAMBDA m1 : read_checksum_short(m1))
  ELSE IF m.bytes_until_checksum = 1 THEN set_state(m, Done)
  ELSE m

RECURSIVE read_checksum(_)
read_checksum(m) ==
  IF m.bytes_until_checksum > 0 /\ data_available(m)
    THEN Bind([m EXCEPT !.rx = Tail(@), !.buffer[m.position] = Head(m.rx),
                         !.position = @ + 1, !.bytes_until_checksum = @ - 1],
              LAMBDA m1 : read_checksum(m1))
  ELSE IF m.bytes_until_checksum = 0 THEN set_state(m, Done)
  ELSE m

(***************************************************************************)
(* Natural numbers of any size as little-endian sequences of bytes, for    *)
(* the 64-bit integer and the double arithmetic of the publish loop.       *)
(***************************************************************************)
RECURSIVE BnNorm(_)
BnNorm(a) == IF a = <<>> \/ a[Len(a)] # 0 THEN a ELSE BnNorm(SubSeq(a, 1, Len(a) - 1))

RECURSIVE BnFromNat(_)
BnFromNat(n) == IF n = 0 THEN <<>> ELSE <<n % 256>> \o BnFromNat(n \div 256)

RECURSIVE BnAddC(_, _, _)
BnAddC(a, b, c) ==
  IF a = <<>> /\ b = <<>> THEN (IF c = 0 THEN <<>> ELSE <<c>>)
  ELSE LET x == IF a = <<>> THEN 0 ELSE Head(a)
           y == IF b = <<>> THEN 0 ELSE Head(b)
           t == x + y + c
       IN <<t % 256>> \o BnAddC(IF a = <<>> THEN a ELSE Tail(a),
                                IF b = <<>> THEN b ELSE Tail(b), t \div 256)
BnAdd(a, b) == BnAddC(a, b, 0)

\* a * k + c for a small k
RECURSIVE BnMulSmall(_, _, _)
BnMulSmall(a, k, c) ==
  IF a = <<>> THEN BnFromNat(c)
  ELSE LET t == Head(a) * k + c
       IN <<t % 256>> \o BnMulSmall(Tail(a), k, t \div 256)

RECURSIVE BnMul(_, _)
BnMul(a, b) ==
  IF a = <<>> \/ b = <<>> THEN <<>>
  ELSE BnNorm(BnAdd(BnMulSmall(b, Head(a), 0), <<0>> \o BnMul(Tail(a), b)))

RECURSIVE BitLen(_)
BitLen(n) == IF n = 0 THEN 0 ELSE 1 + BitLen(n \div 2)
BnBitLen(a) == IF a = <<>> THEN 0 ELSE 8 * (Len(a) - 1) + BitLen(a[Len(a)])

RECURSIVE Pow2(_)
Pow2(k) == IF k = 0 THEN 1 ELSE 2 * Pow2(k - 1)

\* bit i (from 0) of a
BnBit(a, i) == IF i \div 8 >= Len(a) THEN 0 ELSE (a[(i \div 8) + 1] \div Pow2(i % 8)) % 2

\* a mod 2^k is not zero
BnLowNonzero(a, k) ==
  \E i \in 1..Len(a) :
     /\ a[i] # 0
     /\ \/ i <= k \div 8
        \/ i = (k \div 8) + 1 /\ a[i] % Pow2(k % 8) # 0

\* floor(a / 2^k)
BnShr(a, k) ==
  LET q == k \div 8
      r == k % 8
      d == IF q >= Len(a) THEN <<>> ELSE SubSeq(a, q + 1, Len(a))
  IN BnNorm([i \in 1..Len(d) |->
        (d[i] \div Pow2(r)) + ((IF i < Len(d) THEN d[i + 1] ELSE 0) % Pow2(r)) * Pow2(8 - r)])

\* a * 2^k
BnShl(a, k) ==
  IF a = <<>> THEN <<>>
  ELSE BnNorm([i \in 1..(k \div 8) |-> 0] \o BnMulSmall(a, Pow2(k % 8), 0))

\* a < b, for normalised a and b
RECURSIVE BnLess(_, _)
BnLess(a, b) ==
  IF Len(a) # Len(b) THEN Len(a) < Len(b)
  ELSE IF a = <<>> THEN FALSE
  ELSE IF a[Len(a)] # b[Len(b)] THEN a[Len(a)] < b[Len(b)]
  ELSE BnLess(BnNorm(SubSeq(a, 1, Len(a) - 1)), BnNorm(SubSeq(b, 1, Len(b) - 1)))

\* a - b for a >= b
RECURSIVE BnSubB(_, _, _)
BnSubB(a, b, borrow) ==
  IF a = <<>> THEN <<>>
  ELSE LET y == (IF b = <<>> THEN 0 ELSE Head(b)) + borrow
           t == Head(a) - y
       IN <<(t + 256) % 256>> \o
          BnSubB(Tail(a), IF b = <<>> THEN b ELSE Tail(b), IF t < 0 THEN 1 ELSE 0)
BnSub(a, b) == BnNorm(BnSubB(a, b, 0))

(***************************************************************************)
(* IEEE-754 binary64, magnitudes only: m * 2^e with m below 2^53 after     *)
(* rounding to nearest, ties to even.                                      *)
(***************************************************************************)
DRound(a, e, sticky) ==
  LET n == BnBitLen(a)
      sh == n - 53
      q == BnShr(a, sh)
      half == BnBit(a, sh - 1) = 1
      rest == sticky \/ BnLowNonzero(a, sh - 1)
      up == half /\ (rest \/ BnBit(q, 0) = 1)
  IN IF sh <= 0 THEN [m |-> a, e |-> e]
     ELSE [m |-> IF up THEN BnAdd(q, <<1>>) ELSE q, e |-> e + sh]

DMul(x, y) == DRound(BnMul(x.m, y.m), x.e + y.e, FALSE)

\* pow(10, s) for s = -128 .. 127 as <<e, m>>: the double nearest to 10^s is m * 2^e
Pow10Table ==
  <<
    <<-478, <<157, 151, 140, 207, 8, 186, 27>>>>, <<-474, <<194, 222, 183, 129, 69, 84, 17>>>>,
    <<-471, <<114, 214, 37, 226, 86, 169, 21>>>>, <<-468, <<15, 76, 175, 154, 172, 19, 27>>>>,
    <<-464, <<137, 143, 173, 224, 75, 236, 16>>>>, <<-461, <<108, 243, 216, 216, 94, 39, 21>>>>,
    <<-458, <<71, 48, 15, 143, 54, 113, 26>>>>, <<-454, <<44, 126, 105, 25, 194, 134, 16>>>>,
    <<-451, <<183, 221, 195, 159, 114, 168, 20>>>>, <<-448, <<37, 213, 180, 71, 143, 210, 25>>>>,
    <<-444, <<55, 5, 209, 140, 153, 35, 16>>>>, <<-441, <<133, 70, 5, 240, 127, 44, 20>>>>,
    <<-438, <<38, 152, 6, 236, 159, 55, 25>>>>, <<-435, <<48, 62, 8, 231, 135, 133, 31>>>>,
    <<-431, <<222, 38, 101, 240, 116, 179, 19>>>>, <<-428, <<149, 112, 126, 44, 82, 160, 24>>>>,
    <<-425, <<186, 12, 158, 183, 102, 200, 30>>>>, <<-421, <<245, 199, 194, 50, 64, 61, 19>>>>,
    <<-418, <<242, 121, 115, 63, 144, 12, 24>>>>, <<-415, <<110, 88, 80, 79, 180, 15, 30>>>>,
    <<-411, <<69, 55, 146, 177, 208, 201, 18>>>>, <<-408, <<22, 197, 246, 221, 68, 124, 23>>>>,
    <<-405, <<91, 118, 116, 21, 86, 91, 29>>>>, <<-401, <<249, 201, 104, 205, 21, 89, 18>>>>,
    <<-398, <<119, 252, 194, 64, 91, 239, 22>>>>, <<-395, <<149, 187, 243, 16, 50, 171, 28>>>>,
    <<-391, <<61, 85, 152, 74, 255, 234, 17>>>>, <<-388, <<141, 106, 62, 29, 191, 101, 22>>>>,
    <<-385, <<48, 5, 142, 228, 46, 255, 27>>>>, <<-381, <<62, 195, 216, 78, 125, 127, 17>>>>,
    <<-378, <<13, 244, 142, 162, 92, 223, 21>>>>, <<-375, <<17, 177, 50, 203, 51, 87, 27>>>>,
    <<-371, <<170, 174, 255, 94, 128, 22, 17>>>>, <<-368, <<85, 154, 191, 118, 32, 92, 21>>>>,
    <<-365, <<234, 128, 111, 148, 40, 179, 26>>>>, <<-361, <<146, 176, 197, 92, 249, 175, 16>>>>,
    <<-358, <<183, 28, 247, 179, 247, 219, 20>>>>, <<-355, <<229, 227, 244, 160, 245, 18, 26>>>>,
    <<-351, <<111, 14, 153, 132, 217, 75, 16>>>>, <<-348, <<11, 82, 191, 229, 207, 94, 20>>>>,
    <<-345, <<141, 38, 47, 223, 131, 118, 25>>>>, <<-342, <<49, 240, 250, 214, 36, 212, 31>>>>,
    <<-338, <<31, 214, 92, 6, 151, 228, 19>>>>, <<-335, <<166, 11, 244, 199, 188, 221, 24>>>>,
    <<-332, <<144, 14, 241, 249, 43, 21, 31>>>>, <<-328, <<26, 169, 54, 124, 59, 109, 19>>>>,
    <<-325, <<96, 83, 68, 91, 138, 72, 24>>>>, <<-322, <<56, 104, 21, 242, 172, 90, 30>>>>,
    <<-318, <<35, 97, 77, 23, 172, 248, 18>>>>, <<-315, <<108, 185, 32, 29, 215, 182, 23>>>>,
    <<-312, <<199, 231, 104, 228, 140, 164, 29>>>>, <<-308, <<220, 144, 193, 14, 216, 134, 18>>>>,
    <<-305, <<19, 245, 113, 18, 142, 40, 23>>>>, <<-302, <<88, 114, 14, 151, 177, 242, 28>>>>,
    <<-298, <<119, 7, 105, 254, 174, 23, 18>>>>, <<-295, <<85, 73, 3, 190, 154, 157, 22>>>>,
    <<-292, <<170, 27, 132, 109, 1, 69, 28>>>>, <<-288, <<74, 145, 114, 228, 32, 171, 17>>>>,
    <<-285, <<157, 53, 143, 29, 233, 21, 22>>>>, <<-282, <<4, 3, 243, 100, 99, 155, 27>>>>,
    <<-278, <<227, 225, 23, 31, 30, 65, 17>>>>, <<-275, <<91, 218, 221, 166, 101, 145, 21>>>>,
    <<-272, <<242, 80, 149, 16, 191, 245, 26>>>>, <<-268, <<151, 82, 93, 106, 151, 217, 16>>>>,
    <<-265, <<61, 167, 244, 68, 253, 15, 21>>>>, <<-262, <<13, 209, 49, 150, 252, 83, 26>>>>,
    <<-258, <<168, 34, 223, 221, 125, 116, 16>>>>, <<-255, <<82, 235, 86, 85, 157, 145, 20>>>>,
    <<-252, <<38, 166, 172, 170, 4, 182, 25>>>>, <<-248, <<216, 231, 171, 234, 194, 17, 16>>>>,
    <<-245, <<206, 225, 86, 165, 51, 22, 20>>>>, <<-242, <<65, 154, 172, 142, 192, 27, 25>>>>,
    <<-239, <<210, 192, 87, 178, 176, 98, 31>>>>, <<-235, <<131, 216, 118, 111, 174, 157, 19>>>>,
    <<-232, <<164, 142, 84, 11, 26, 133, 24>>>>, <<-229, <<77, 178, 41, 142, 96, 166, 30>>>>,
    <<-225, <<112, 15, 218, 88, 252, 39, 19>>>>, <<-222, <<76, 147, 16, 111, 251, 241, 23>>>>,
    <<-219, <<31, 184, 212, 74, 122, 238, 29>>>>, <<-215, <<19, 243, 196, 110, 12, 181, 18>>>>,
    <<-212, <<216, 47, 118, 138, 79, 98, 23>>>>, <<-209, <<206, 187, 19, 109, 227, 58, 29>>>>,
    <<-205, <<97, 85, 44, 36, 206, 68, 18>>>>, <<-202, <<185, 106, 55, 173, 1, 214, 22>>>>,
    <<-199, <<103, 69, 133, 24, 130, 139, 28>>>>, <<-195, <<97, 75, 83, 79, 49, 215, 17>>>>,
    <<-192, <<57, 30, 40, 163, 253, 76, 22>>>>, <<-189, <<199, 37, 242, 11, 61, 224, 27>>>>,
    <<-185, <<156, 87, 119, 39, 38, 108, 17>>>>, <<-182, <<131, 45, 85, 177, 47, 199, 21>>>>,
    <<-179, <<228, 120, 170, 157, 251, 56, 27>>>>, <<-175, <<143, 139, 138, 66, 157, 3, 17>>>>,
    <<-172, <<114, 46, 45, 147, 132, 68, 21>>>>, <<-169, <<15, 122, 248, 183, 165, 149, 26>>>>,
    <<-165, <<73, 76, 251, 146, 135, 157, 16>>>>, <<-162, <<92, 31, 186, 119, 233, 196, 20>>>>,
    <<-159, <<51, 167, 168, 213, 35, 246, 25>>>>, <<-155, <<128, 104, 137, 101, 214, 57, 16>>>>,
    <<-152, <<160, 194, 235, 254, 75, 72, 20>>>>, <<-149, <<71, 179, 166, 254, 94, 90, 25>>>>,
    <<-146, <<25, 96, 80, 190, 246, 176, 31>>>>, <<-142, <<16, 60, 242, 54, 154, 206, 19>>>>,
    <<-139, <<20, 203, 174, 196, 64, 194, 24>>>>, <<-136, <<217, 125, 218, 245, 208, 242, 30>>>>,
    <<-132, <<167, 142, 168, 153, 194, 87, 19>>>>, <<-129, <<81, 178, 18, 64, 179, 45, 24>>>>,
    <<-126, <<230, 94, 23, 16, 32, 57, 30>>>>, <<-122, <<79, 155, 14, 10, 180, 227, 18>>>>,
    <<-119, <<35, 66, 146, 12, 161, 156, 23>>>>, <<-116, <<172, 210, 182, 79, 201, 131, 29>>>>,
    <<-112, <<172, 67, 210, 209, 93, 114, 18>>>>, <<-109, <<151, 212, 70, 70, 245, 14, 23>>>>,
    <<-106, <<188, 137, 216, 151, 178, 210, 28>>>>, <<-102, <<22, 86, 231, 158, 175, 3, 18>>>>,
    <<-99, <<155, 43, 161, 134, 155, 132, 22>>>>, <<-96, <<130, 118, 73, 104, 194, 37, 28>>>>,
    <<-92, <<17, 234, 45, 129, 153, 151, 17>>>>, <<-89, <<149, 100, 121, 225, 127, 253, 21>>>>,
    <<-86, <<187, 189, 215, 217, 223, 124, 27>>>>, <<-82, <<149, 214, 38, 232, 11, 46, 17>>>>,
    <<-79, <<58, 140, 48, 226, 142, 121, 21>>>>, <<-76, <<72, 175, 188, 154, 242, 215, 26>>>>,
    <<-72, <<141, 237, 181, 160, 247, 198, 16>>>>, <<-69, <<241, 104, 227, 136, 181, 248, 20>>>>,
    <<-66, <<45, 67, 28, 235, 226, 54, 26>>>>, <<-62, <<252, 169, 241, 210, 77, 98, 16>>>>,
    <<-59, <<123, 20, 174, 71, 225, 122, 20>>>>, <<-56, <<154, 153, 153, 153, 153, 153, 25>>>>,
    <<-52, <<0, 0, 0, 0, 0, 0, 16>>>>, <<-49, <<0, 0, 0, 0, 0, 0, 20>>>>,
    <<-46, <<0, 0, 0, 0, 0, 0, 25>>>>, <<-43, <<0, 0, 0, 0, 0, 64, 31>>>>,
    <<-39, <<0, 0, 0, 0, 0, 136, 19>>>>, <<-36, <<0, 0, 0, 0, 0, 106, 24>>>>,
    <<-33, <<0, 0, 0, 0, 128, 132, 30>>>>, <<-29, <<0, 0, 0, 0, 208, 18, 19>>>>,
    <<-26, <<0, 0, 0, 0, 132, 215, 23>>>>, <<-23, <<0, 0, 0, 0, 101, 205, 29>>>>,
    <<-19, <<0, 0, 0, 32, 95, 160, 18>>>>, <<-16, <<0, 0, 0, 232, 118, 72, 23>>>>,
    <<-13, <<0, 0, 0, 162, 148, 26, 29>>>>, <<-9, <<0, 0, 64, 229, 156, 48, 18>>>>,
    <<-6, <<0, 0, 144, 30, 196, 188, 22>>>>, <<-3, <<0, 0, 52, 38, 245, 107, 28>>>>,
    <<1, <<0, 128, 224, 55, 121, 195, 17>>>>, <<4, <<0, 160, 216, 133, 87, 52, 22>>>>,
    <<7, <<0, 200, 78, 103, 109, 193, 27>>>>, <<11, <<0, 61, 145, 96, 228, 88, 17>>>>,
    <<14, <<64, 140, 181, 120, 29, 175, 21>>>>, <<17, <<80, 239, 226, 214, 228, 26, 27>>>>,
    <<21, <<146, 213, 77, 6, 207, 240, 16>>>>, <<24, <<246, 74, 225, 199, 2, 45, 21>>>>,
    <<27, <<180, 157, 217, 121, 67, 120, 26>>>>, <<31, <<145, 2, 40, 44, 42, 139, 16>>>>,
    <<34, <<53, 3, 50, 183, 244, 173, 20>>>>, <<37, <<2, 132, 254, 228, 113, 217, 25>>>>,
    <<41, <<129, 18, 31, 47, 231, 39, 16>>>>, <<44, <<33, 215, 230, 250, 224, 49, 20>>>>,
    <<47, <<234, 140, 160, 57, 89, 62, 25>>>>, <<50, <<36, 176, 8, 136, 239, 141, 31>>>>,
    <<54, <<23, 110, 5, 181, 181, 184, 19>>>>, <<57, <<156, 201, 70, 34, 227, 166, 24>>>>,
    <<60, <<3, 124, 216, 234, 155, 208, 30>>>>, <<64, <<130, 77, 199, 114, 97, 66, 19>>>>,
    <<67, <<227, 32, 121, 207, 249, 18, 24>>>>, <<70, <<27, 105, 87, 67, 184, 23, 30>>>>,
    <<74, <<177, 161, 22, 42, 211, 206, 18>>>>, <<77, <<29, 74, 156, 244, 135, 130, 23>>>>,
    <<80, <<165, 92, 195, 241, 41, 99, 29>>>>, <<84, <<231, 25, 26, 55, 250, 93, 18>>>>,
    <<87, <<97, 160, 224, 196, 120, 245, 22>>>>, <<90, <<121, 200, 24, 246, 214, 178, 28>>>>,
    <<94, <<76, 125, 207, 89, 198, 239, 17>>>>, <<97, <<158, 92, 67, 240, 183, 107, 22>>>>,
    <<100, <<198, 51, 84, 236, 165, 6, 28>>>>, <<104, <<92, 160, 180, 179, 39, 132, 17>>>>,
    <<107, <<115, 200, 161, 160, 49, 229, 21>>>>, <<110, <<143, 58, 202, 8, 126, 94, 27>>>>,
    <<114, <<154, 100, 126, 197, 14, 27, 17>>>>, <<117, <<192, 253, 221, 118, 210, 97, 21>>>>,
    <<120, <<48, 125, 149, 20, 71, 186, 26>>>>, <<124, <<62, 110, 221, 108, 108, 180, 16>>>>,
    <<127, <<206, 201, 20, 136, 135, 225, 20>>>>, <<130, <<65, 252, 25, 106, 233, 25, 26>>>>,
    <<134, <<169, 61, 80, 226, 49, 80, 16>>>>, <<137, <<19, 77, 228, 90, 62, 100, 20>>>>,
    <<140, <<87, 96, 157, 241, 77, 125, 25>>>>, <<143, <<109, 184, 4, 110, 161, 220, 31>>>>,
    <<147, <<68, 243, 194, 228, 228, 233, 19>>>>, <<150, <<21, 176, 243, 29, 94, 228, 24>>>>,
    <<153, <<27, 156, 112, 165, 117, 29, 31>>>>, <<157, <<145, 97, 102, 135, 105, 114, 19>>>>,
    <<160, <<245, 249, 63, 233, 3, 79, 24>>>>, <<163, <<114, 248, 143, 227, 196, 98, 30>>>>,
    <<167, <<71, 251, 57, 14, 187, 253, 18>>>>, <<170, <<25, 122, 200, 209, 41, 189, 23>>>>,
    <<173, <<159, 152, 58, 70, 116, 172, 29>>>>, <<177, <<100, 159, 228, 171, 200, 139, 18>>>>,
    <<180, <<61, 199, 221, 214, 186, 46, 23>>>>, <<183, <<12, 57, 149, 140, 105, 250, 28>>>>,
    <<187, <<167, 67, 221, 247, 129, 28, 18>>>>, <<190, <<145, 148, 212, 117, 162, 163, 22>>>>,
    <<193, <<181, 185, 73, 19, 139, 76, 28>>>>, <<197, <<17, 20, 14, 236, 214, 175, 17>>>>,
    <<200, <<22, 153, 17, 167, 204, 27, 22>>>>, <<203, <<91, 255, 213, 208, 191, 162, 27>>>>,
    <<207, <<153, 191, 133, 226, 183, 69, 17>>>>, <<210, <<127, 47, 39, 219, 37, 151, 21>>>>,
    <<213, <<95, 251, 240, 81, 239, 252, 26>>>>, <<217, <<27, 157, 54, 147, 21, 222, 16>>>>,
    <<220, <<98, 68, 4, 248, 154, 21, 21>>>>, <<223, <<123, 85, 5, 182, 1, 91, 26>>>>,
    <<227, <<109, 85, 195, 17, 225, 120, 16>>>>, <<230, <<200, 42, 52, 86, 25, 151, 20>>>>,
    <<233, <<122, 53, 193, 171, 223, 188, 25>>>>, <<237, <<108, 193, 88, 203, 11, 22, 16>>>>,
    <<240, <<199, 241, 46, 190, 142, 27, 20>>>>, <<243, <<57, 174, 186, 109, 114, 34, 25>>>>,
    <<246, <<199, 89, 41, 9, 15, 107, 31>>>>, <<250, <<29, 216, 185, 101, 233, 162, 19>>>>,
    <<253, <<36, 78, 40, 191, 163, 139, 24>>>>, <<256, <<173, 97, 242, 174, 140, 174, 30>>>>,
    <<260, <<12, 125, 87, 237, 23, 45, 19>>>>, <<263, <<79, 92, 173, 232, 93, 248, 23>>>>,
    <<266, <<99, 179, 216, 98, 117, 246, 29>>>>, <<270, <<30, 112, 199, 93, 9, 186, 18>>>>,
    <<273, <<37, 76, 57, 181, 139, 104, 23>>>>, <<276, <<46, 159, 135, 162, 174, 66, 29>>>>,
    <<280, <<125, 195, 148, 37, 173, 73, 18>>>>, <<283, <<92, 244, 249, 110, 24, 220, 22>>>>,
    <<286, <<115, 113, 184, 138, 30, 147, 28>>>>, <<290, <<232, 70, 179, 22, 243, 219, 17>>>>,
    <<293, <<162, 24, 96, 220, 239, 82, 22>>>>, <<296, <<202, 30, 120, 211, 171, 231, 27>>>>,
    <<300, <<63, 19, 43, 100, 203, 112, 17>>>>, <<303, <<14, 216, 53, 61, 254, 204, 21>>>>,
    <<306, <<18, 78, 131, 204, 61, 64, 27>>>>, <<310, <<203, 16, 210, 159, 38, 8, 17>>>>,
    <<313, <<254, 148, 198, 71, 48, 74, 21>>>>, <<316, <<61, 58, 184, 89, 188, 156, 26>>>>,
    <<320, <<102, 36, 19, 184, 245, 161, 16>>>>, <<323, <<128, 237, 23, 38, 115, 202, 20>>>>,
    <<326, <<224, 232, 157, 239, 15, 253, 25>>>>, <<330, <<140, 177, 194, 245, 41, 62, 16>>>>,
    <<333, <<239, 93, 51, 115, 180, 77, 20>>>>, <<336, <<107, 53, 0, 144, 33, 97, 25>>>>,
    <<339, <<197, 66, 0, 244, 105, 185, 31>>>>, <<343, <<187, 41, 128, 56, 226, 211, 19>>>>,
    <<346, <<42, 52, 160, 198, 218, 200, 24>>>>, <<349, <<53, 65, 72, 120, 17, 251, 30>>>>,
    <<353, <<193, 40, 45, 235, 234, 92, 19>>>>, <<356, <<241, 114, 248, 165, 37, 52, 24>>>>,
    <<359, <<173, 143, 118, 15, 47, 65, 30>>>>, <<363, <<204, 25, 170, 105, 189, 232, 18>>>>,
    <<366, <<63, 160, 20, 196, 236, 162, 23>>>>, <<369, <<79, 200, 25, 245, 167, 139, 29>>>>
  >>

pow10(s) == [m |-> Pow10Table[s + 129][2], e |-> Pow10Table[s + 129][1]]

(***************************************************************************)
(* process_message                                                         *)
(***************************************************************************)
\* uint64_t as eight bytes, least significant first
TwoTo64 == <<0, 0, 0, 0, 0, 0, 0, 0, 1>>

\* |v| and the sign of the int64_t whose bits are u
I64Negative(u) == u[8] >= 128
I64Magnitude(u) == IF I64Negative(u) THEN BnSub(TwoTo64, BnNorm(u)) ELSE BnNorm(u)

\* (int8_t) of a byte
Int8(b) == IF b >= 128 THEN b - 256 ELSE b

\* int32_t value = (uint32_t) t, for a t below 2^32
Int32OfU32(t) ==
  LET b == [i \in 1..4 |-> IF i <= Len(t) THEN t[i] ELSE 0]
  IN (b[1] + 256 * b[2] + 65536 * b[3] + 16777216 * (b[4] % 128))
       + (IF b[4] >= 128 THEN (0 - 2147483647) - 1 ELSE 0)

D1000 == [m |-> <<232, 3>>, e |-> 0]

\* the integer part of a double magnitude known to be below 2^32
DTrunc(x) == IF x.e >= 0 THEN BnShl(x.m, x.e) ELSE BnShr(x.m, 0 - x.e)

\* what the conversion of an out-of-range double to uint32_t may produce
CastOutcomes == {0, 0 - 1, (0 - 2147483647) - 1}

\* (uint32_t)((value * pow(10, scaler)) * 1000) assigned to an int32_t;
\* cast is the outcome of the conversion where the double is out of range
Scale(value, scaler, cast) ==
  LET d == DMul(DMul(DRound(I64Magnitude(value), 0, FALSE), pow10(scaler)), D1000)
      small == d.m = <<>> \/ BnBitLen(d.m) + d.e <= 32
      t == IF d.m = <<>> THEN <<>> ELSE DTrunc(d)
  IN IF small /\ (t = <<>> \/ ~I64Negative(value)) THEN Int32OfU32(t) ELSE cast

\* *(cp) for a cp at index idx of buffer; past the array the byte is oob
Deref(m, idx, oob) == IF idx < BUFFER_SIZE THEN m.buffer[idx] ELSE oob

\* memmem_P(buffer, position, pattern, 8): the first match, or -1
memmem(buf, len, pattern) ==
  LET hits == { k \in 0..(len - Len(pattern)) :
                  \A j \in 1..Len(pattern) : buf[k + j - 1] = pattern[j] }
  IN IF hits = {} THEN 0 - 1 ELSE CHOOSE k \in hits : \A h \in hits : k <= h

\* ParseMetric with the value loop making len passes
ParseMetric_long(m, k, pattern, oob) ==
  LET cp0 == k + Len(pattern)
      cp1 == cp0 + LowNibble(Deref(m, cp0, oob))
      cp2 == cp1 + LowNibble(Deref(m, cp1, oob))
      unit == Deref(m, cp2 + 1, oob)
      cp3 == cp2 + LowNibble(Deref(m, cp2, oob))
      scaler == Int8(Deref(m, cp3 + 1, oob))
      cp4 == cp3 + LowNibble(Deref(m, cp3, oob))
      type == TypeBits(Deref(m, cp4, oob))
      len == LowNibble(Deref(m, cp4, oob))
      cp5 == cp4 + 1
      passes == len
      \* after the passes uvalue holds the last eight bytes read, or fewer
      uvalue == [j \in 1..8 |-> IF j <= passes THEN Deref(m, cp5 + passes - j, oob) ELSE 0]
      last == IF passes > 0 THEN cp5 + passes - 1 ELSE cp4
  IN [value |-> uvalue, unit |-> unit, scaler |-> scaler, type |-> type,
      passes |-> passes, last_read |-> IF cp3 + 1 > last THEN cp3 + 1 ELSE last]

\* ParseMetric with a value tagged signed extended by its sign
ParseMetric_signed(m, k, pattern, oob) ==
  LET cp0 == k + Len(pattern)
      cp1 == cp0 + LowNibble(Deref(m, cp0, oob))
      cp2 == cp1 + LowNibble(Deref(m, cp1, oob))
      unit == Deref(m, cp2 + 1, oob)
      cp3 == cp2 + LowNibble(Deref(m, cp2, oob))
      scaler == Int8(Deref(m, cp3 + 1, oob))
      cp4 == cp3 + LowNibble(Deref(m, cp3, oob))
      type == TypeBits(Deref(m, cp4, oob))
      len == LowNibble(Deref(m, cp4, oob))
      cp5 == cp4 + 1
      \* uint8_t nlen = len; while (--nlen): len - 1 passes, 255 when len is 0
      passes == (len + 255) % 256
      \* after the passes uvalue holds the last eight bytes read, or fewer
      uvalue == [j \in 1..8 |-> IF j <= passes THEN Deref(m, cp5 + passes - j, oob)
                                ELSE IF type = 80 /\ passes > 0 /\ Deref(m, cp5, oob) >= 128
                                  THEN 255 ELSE 0]
      last == IF passes > 0 THEN cp5 + passes - 1 ELSE cp4
  IN [value |-> uvalue, unit |-> unit, scaler |-> scaler, type |-> type,
      passes |-> passes, last_read |-> IF cp3 + 1 > last THEN cp3 + 1 ELSE last]

\* the walk over status, time, unit, scaler and value from a pattern found at k
ParseMetric(m, k, pattern, oob) ==
  LET cp0 == k + Len(pattern)
      cp1 == cp0 + LowNibble(Deref(m, cp0, oob))
      cp2 == cp1 + LowNibble(Deref(m, cp1, oob))
      unit == Deref(m, cp2 + 1, oob)
      cp3 == cp2 + LowNibble(Deref(m, cp2, oob))
      scaler == Int8(Deref(m, cp3 + 1, oob))
      cp4 == cp3 + LowNibble(Deref(m, cp3, oob))
      type == TypeBits(Deref(m, cp4, oob))
      len == LowNibble(Deref(m, cp4, oob))
      cp5 == cp4 + 1
      \* uint8_t nlen = len; while (--nlen): len - 1 passes, 255 when len is 0
      passes == (len + 255) % 256
      \* after the passes uvalue holds the last eight bytes read, or fewer
      uvalue == [j \in 1..8 |-> IF j <= passes THEN Deref(m, cp5 + passes - j, oob) ELSE 0]
      last == IF passes > 0 THEN cp5 + passes - 1 ELSE cp4
  IN [value |-> uvalue, unit |-> unit, scaler |-> scaler, type |-> type,
      passes |-> passes, last_read |-> IF cp3 + 1 > last THEN cp3 + 1 ELSE last]

MetricName(i) == <<"power_in", "power_out", "power_current">>[i + 1]

\* the parse loop: values[] after it, indexed from 0
RECURSIVE Parse(_, _, _, _)
Parse(m, i, vals, oob) ==
  IF i = METRIC_LENGTH THEN [m EXCEPT !.values = vals]
  ELSE LET found_at == memmem(m.buffer, m.position, METRICS[i + 1])
           pv == ParseMetric(m, found_at, METRICS[i + 1], oob)
       IN IF found_at = 0 - 1 THEN Parse(m, i + 1, vals, oob)
          ELSE Parse([println(m, "Found metric " \o MetricName(i))
                        EXCEPT !.max_read = IF pv.last_read > @ THEN pv.last_read ELSE @],
                     i + 1,
                     [vals EXCEPT ![i] = [value |-> pv.value, unit |-> pv.unit,
                                          scaler |-> pv.scaler]],
                     oob)

\* the publish loop with every metric written one slot further on
RECURSIVE Publish_shifted(_, _, _)
Publish_shifted(m, i, cast) ==
  IF i = METRIC_LENGTH THEN m
  ELSE LET value == Scale(m.values[i].value, m.values[i].scaler, cast)
       IN IF i <= 3
            THEN Publish_shifted([println(m, "Publish_shifteded metric " \o MetricName(i))
                            EXCEPT !.regs[i + 1] = value], i + 1, cast)
            ELSE Publish_shifted(println(m, "Error: Num of metrics exceeds the num of available 32 bit slots of the BAE910."),
                         i + 1, cast)

\* the publish loop
RECURSIVE Publish(_, _, _)
Publish(m, i, cast) ==
  IF i = METRIC_LENGTH THEN m
  ELSE LET value == Scale(m.values[i].value, m.values[i].scaler, cast)
       IN IF i <= 3
            THEN Publish([println(m, "Published metric " \o MetricName(i))
                            EXCEPT !.regs[i] = value], i + 1, cast)
            ELSE Publish(println(m, "Error: Num of metrics exceeds the num of available 32 bit slots of the BAE910."),
                         i + 1, cast)

\* what the uninitialised values[] may hold on entry: what the last call left
\* in that stack memory, or something else
StackGarbage ==
  [i \in 0..(METRIC_LENGTH - 1) |->
     [value |-> <<57, 48, 0, 0, 0, 0, 0, 0>>, unit |-> 0, scaler |-> 0]]

UB == [stack : {"residue", "other"}, oob : {0, 255}, cast : CastOutcomes]
\* a walk that starts inside a datagram ends at most this far behind it
MaxOverrun == 4 * 15 + 1 + 255
\* the choices that can matter for a datagram of length len
UBFor(len) == IF len + MaxOverrun >= BUFFER_SIZE THEN UB ELSE { ub \in UB : ub.oob = 0 }
UB0 == [stack |-> "residue", oob |-> 0, cast |-> 0]

Frame(m) == [i \in 1..m.position |-> m.buffer[i - 1]]

\* process_message without the comparison of the checksums
process_message_unchecked(m, ub) ==
  LET uninitialised == IF ub.stack = "residue" THEN m.values ELSE StackGarbage
  IN reset(Publish(Parse([m EXCEPT !.accepted = Append(@, Frame(m))],
                         0, uninitialised, ub.oob),
                   0, ub.cast),
           "")

process_message(m, ub) ==
  LET calculated_checksum == x25(m.buffer, m.position - 2)
      given_checksum == m.buffer[m.position - 1] * 256 + m.buffer[m.position - 2]
      uninitialised == IF ub.stack = "residue" THEN m.values ELSE StackGarbage
  IN IF calculated_checksum # given_checksum
       THEN reset(m, "Checksum mismatch, starting over.")
       ELSE reset(Publish(Parse([m EXCEPT !.accepted = Append(@, Frame(m))],
                                0, uninitialised, ub.oob),
                          0, ub.cast),
                  "")

(***************************************************************************)
(* run_current_state: the watchdog, then the current state function        *)
(***************************************************************************)
\* run_current_state without the watchdog
run_current_state_unwatched(m, ub) ==
  IF m.state = WaitStart THEN wait_for_start_sequence(m)
  ELSE IF m.state = Accumulate THEN read_message(m)
  ELSE IF m.state = AwaitTail THEN read_checksum(m)
  ELSE process_message(m, ub)

\* run_current_state that goes on to process_message in the pass that
\* completes the datagram
run_current_state_through(m, ub) ==
  LET m1 == IF m.elapsed > READ_TIMEOUT * 1000
              THEN reset(println(m, "Did not receive a message within 30 seconds, starting over."), "")
              ELSE m
      m2 == IF m1.state = WaitStart THEN wait_for_start_sequence(m1)
            ELSE IF m1.state = Accumulate THEN read_message(m1)
            ELSE IF m1.state = AwaitTail THEN read_checksum(m1)
            ELSE process_message(m1, ub)
  IN IF m1.state = AwaitTail /\ m2.state = Done THEN process_message(m2, ub) ELSE m2

\* run_current_state with the watchdog firing at 30 seconds already
run_current_state_early(m, ub) ==
  LET m1 == IF m.elapsed >= READ_TIMEOUT * 1000
              THEN reset(println(m, "Did not receive a message within 30 seconds, starting over."), "")
              ELSE m
  IN IF m1.state = WaitStart THEN wait_for_start_sequence(m1)
     ELSE IF m1.state = Accumulate THEN read_message(m1)
     ELSE IF m1.state = AwaitTail THEN read_checksum(m1)
     ELSE process_message(m1, ub)

run_current_state(m, ub) ==
  LET m1 == IF m.elapsed > READ_TIMEOUT * 1000
              THEN reset(println(m, "Did not receive a message within 30 seconds, starting over."), "")
              ELSE m
  IN IF m1.state = WaitStart THEN wait_for_start_sequence(m1)
     ELSE IF m1.state = Accumulate THEN read_message(m1)
     ELSE IF m1.state = AwaitTail THEN read_checksum(m1)
     ELSE process_message(m1, ub)

(***************************************************************************)
(* The meter: streams of bytes                                             *)
(***************************************************************************)
ToBuf(s) == [i \in 0..(Len(s) - 1) |-> s[i + 1]]

\* a well-formed datagram: start marker, payload, end marker, fill-count, CRC
Datagram(payload, fillcount) ==
  LET body == START_SEQUENCE \o payload \o END_SEQUENCE \o <<fillcount>>
      crc == x25(ToBuf(body), Len(body))
  IN body \o <<crc % 256, crc \div 256>>

StreamLen(st) == Len(st.head) + st.n + Len(st.tail)
StreamAt(st, k) ==
  IF k <= Len(st.head) THEN st.head[k]
  ELSE IF k <= Len(st.head) + st.n THEN st.fill
  ELSE st.tail[k - Len(st.head) - st.n]

Plain(s) == [head |-> s, fill |-> 0, n |-> 0, tail |-> <<>>]

\* status and time fields of one byte each, a two-byte unit field and a
\* two-byte scaler field, as the meter sends them before a value field
Fields(unit, scaler) == <<1, 1, 98, unit, 82, scaler>>

\* power_in = 916 * 10^-1, unit 0x1E, as a signed value field of length 4
PIn == METRICS[1] \o Fields(30, 255) \o <<84, 0, 3, 148>>
\* power_out = 300 * 10^0, as an unsigned value field of length 3
POut == METRICS[2] \o Fields(30, 0) \o <<99, 1, 44>>
\* the pattern of power_in as the last bytes of the payload
PCut == METRICS[1]
\* the bytes of the specification's example
PExample == METRICS[1] \o <<1, 0, 1, 0, 1, 30, 1, 255, 89, 0, 3, 148>>

\* a datagram with one bit of byte k (from 1) flipped after the CRC was computed
Corrupt(d, k) == [d EXCEPT ![k] = BitXor(@, 1)]

NoiseBytes == {0, 1, 27}
RECURSIVE Noise(_)
Noise(n) ==
  IF n = 0 THEN {<<>>}
  ELSE LET shorter == Noise(n - 1)
       IN shorter \cup { Append(s, b) : s \in shorter, b \in NoiseBytes }

\* the datagrams of the streams
DIn == Datagram(PIn, 0)
DOut == Datagram(POut, 0)
DCut == Datagram(PCut, 0)
DExample == Datagram(PExample, 0)

\* noise, one datagram, noise
OneDatagram == { pre \o DIn \o suf : pre \in Noise(MaxNoise), suf \in {<<>>, <<27>>} }
\* a datagram, garbage, a second datagram
TwoDatagrams == { DIn \o mid \o DOut : mid \in {<<>>, <<27, 0>>} }

Streams ==
  LET bad == { Corrupt(DIn, 12) \o DOut }
      odd == { DCut, DExample }
  IN { Plain(s) : s \in OneDatagram \cup TwoDatagrams \cup bad \cup odd }

\* the longest payload whose datagram fits the buffer, as zero bytes
FullPayloadLength == BUFFER_SIZE - 3 - START_SEQUENCE_LENGTH - END_SEQUENCE_LENGTH
Zeros(n) == [i \in 1..n |-> 0]
DFull == Datagram(Zeros(FullPayloadLength), 0)

\* streams as long as the buffer: the start marker, zero bytes, and
\*   no end marker at all,
\*   the end marker and the tail of the longest datagram that fits,
\*   an end marker that comes one byte too late
OverflowStreams ==
  { [head |-> START_SEQUENCE, fill |-> 0, n |-> BUFFER_SIZE - START_SEQUENCE_LENGTH, tail |-> <<>>],
    [head |-> START_SEQUENCE, fill |-> 0, n |-> FullPayloadLength,
     tail |-> SubSeq(DFull, BUFFER_SIZE - 7, BUFFER_SIZE)],
    [head |-> START_SEQUENCE, fill |-> 0, n |-> FullPayloadLength + 1,
     tail |-> END_SEQUENCE \o <<0, 0, 0>>] }

(***************************************************************************)
(* Actions                                                                 *)
(***************************************************************************)
InitWith(streams) ==
  /\ state = WaitStart
  /\ buffer = [i \in 0..(BUFFER_SIZE - 1) |-> 0]
  /\ position = 0
  /\ bytes_until_checksum = 0
  /\ elapsed = 0
  /\ rx = <<>>
  /\ stream \in streams
  /\ sent = 0
  /\ clock = 0
  /\ out = <<"State is 'wait_for_start_sequence'.">>
  /\ regs = [i \in 0..3 |-> 0]
  /\ values = StackGarbage
  /\ max_read = 0 - 1
  /\ accepted = <<>>

Init == InitWith(Streams)

\* the meter's next byte arrives in the receive queue
Receive ==
  /\ sent < StreamLen(stream)
  /\ Len(rx) < MaxRx
  /\ rx' = Append(rx, StreamAt(stream, sent + 1))
  /\ sent' = sent + 1
  /\ UNCHANGED <<state, buffer, position, bytes_until_checksum, elapsed, stream,
                 clock, out, regs, values, max_read, accepted>>

\* the receive queue fills up to MaxBurst bytes in one go
ReceiveBurst ==
  LET room == MaxBurst - Len(rx)
      left == StreamLen(stream) - sent
      k == IF room < left THEN room ELSE left
  IN /\ k >= 1
     /\ rx' = rx \o [i \in 1..k |-> StreamAt(stream, sent + i)]
     /\ sent' = sent + k
     /\ UNCHANGED <<state, buffer, position, bytes_until_checksum, elapsed, stream,
                    clock, out, regs, values, max_read, accepted>>

\* time passes; past the timeout more time changes nothing the program reads
AdvanceTime ==
  /\ elapsed <= READ_TIMEOUT * 1000
  /\ clock < MaxClock
  /\ elapsed' = elapsed + TimeStep
  /\ clock' = clock + 1
  /\ UNCHANGED <<state, buffer, position, bytes_until_checksum, rx, stream, sent,
                 out, regs, values, max_read, accepted>>

\* the pass reaches process_message: the only place with undefined behaviour
RunsProcessMessage == state = Done /\ elapsed <= READ_TIMEOUT * 1000

\* one pass of loop(): run_current_state()
Tick ==
  \E ub \in (IF RunsProcessMessage THEN UBFor(position) ELSE {UB0}) :
    \E m \in {run_current_state([Machine EXCEPT !.out = <<>>, !.max_read = 0 - 1], ub)} :
       /\ state' = m.state
       /\ buffer' = m.buffer
       /\ position' = m.position
       /\ bytes_until_checksum' = m.bytes_until_checksum
       /\ elapsed' = m.elapsed
       /\ rx' = m.rx
       /\ out' = m.out
       /\ regs' = m.regs
       /\ values' = m.values
       /\ max_read' = m.max_read
       /\ accepted' = m.accepted
       /\ UNCHANGED <<stream, sent, clock>>

Next == Receive \/ AdvanceTime \/ Tick

Spec == Init /\ [][Next]_vars

\* streams that fill the buffer, arriving at line speed: 3840 bytes take four
\* seconds at 9600 baud, so the clock stands still while they arrive
InitOverflow == InitWith(OverflowStreams)
NextOverflow == Receive \/ ReceiveBurst \/ Tick
SpecOverflow == InitOverflow /\ [][NextOverflow]_vars

\* streams that leave the framer waiting or make it start over: they end
\* inside the start marker, inside the payload, inside the tail; a corrupted
\* datagram; a stream that overflows the buffer and goes on
LiveStreams ==
  { Plain(SubSeq(START_SEQUENCE, 1, 5)),
    Plain(START_SEQUENCE \o <<0, 27>>),
    Plain(START_SEQUENCE \o END_SEQUENCE \o <<0>>),
    Plain(Corrupt(DIn, 12) \o <<27>>),
    [head |-> START_SEQUENCE, fill |-> 0, n |-> BUFFER_SIZE - START_SEQUENCE_LENGTH,
     tail |-> <<27, 27>>] }

\* millis() goes on for ever; past the timeout more time changes nothing the
\* program reads
Elapse ==
  /\ elapsed <= READ_TIMEOUT * 1000
  /\ elapsed' = elapsed + TimeStep
  /\ UNCHANGED <<state, buffer, position, bytes_until_checksum, rx, stream, sent,
                 clock, out, regs, values, max_read, accepted>>

\* a signed value field of total length 9 that holds v, for |v| < 32768
ValueField(v) ==
  LET low == IF v >= 0 THEN v ELSE 65536 + v
      high == IF v >= 0 THEN 0 ELSE 255
  IN <<89, high, high, high, high, high, high, low \div 256, low % 256>>

\* a datagram that carries power_in as v * 10^s
DScaled(v, s) ==
  Datagram(METRICS[1] \o Fields(30, IF s >= 0 THEN s ELSE 256 + s) \o ValueField(v), 0)

\* the readings: small values of either sign with scalers from 10^-MaxDecimals
\* to 10^1, and 8.03 as 803 * 10^-2
ScaleInputs ==
  (((0 - MaxValue)..MaxValue) \X ((0 - MaxDecimals)..1)) \cup {<<803, 0 - 2>>}
ScaleStreams == { Plain(DScaled(r[1], r[2])) : r \in ScaleInputs }

\* one datagram with one reading, arriving in bursts
InitScale == InitWith(ScaleStreams)
NextScale == ReceiveBurst \/ Tick
SpecScale == InitScale /\ [][NextScale]_vars

\* the payloads of a value field: up to MaxPayload bytes with the top bit
\* clear or set, and payloads of seven and of eight bytes
RECURSIVE Payloads(_)
Payloads(n) ==
  IF n = 0 THEN {<<>>}
  ELSE Payloads(n - 1) \cup { <<b>> \o p : b \in {0, 200}, p \in { q \in Payloads(n - 1) : Len(q) = n - 1 } }
DecodePayloads ==
  Payloads(MaxPayload) \cup {<<200, 1, 2, 3, 4, 5, 6>>, <<200, 1, 2, 3, 4, 5, 6, 7>>}

\* the type bits of a value header: Integer (signed) and Unsigned
SignedType == 80
UnsignedType == 96

\* a datagram that carries power_in with a value field of the type and payload
DTyped(type, payload) ==
  Datagram(METRICS[1] \o Fields(30, 0) \o <<type + Len(payload) + 1>> \o payload, 0)
DecodeStreams ==
  { Plain(DTyped(t, p)) : t \in {SignedType, UnsignedType}, p \in DecodePayloads }

\* one datagram with one value field, arriving in bursts
InitDecode == InitWith(DecodeStreams)
NextDecode == ReceiveBurst \/ Tick
SpecDecode == InitDecode /\ [][NextDecode]_vars

\* loop() runs again and again, and time passes
InitLive == InitWith(LiveStreams)
NextLive == ReceiveBurst \/ Elapse \/ Tick
SpecLive == InitLive /\ [][NextLive]_vars /\ WF_vars(Tick) /\ WF_vars(Elapse)

(***************************************************************************)
(* Properties                                                              *)
(***************************************************************************)
Range(f) == { f[i] : i \in DOMAIN f }
Last(s) == s[Len(s)]

TimeoutLine == "Did not receive a message within 30 seconds, starting over."
OverflowLine == "Buffer will overflow, starting over."
MismatchLine == "Checksum mismatch, starting over."
FoundLine(i) == "Found metric " \o MetricName(i)
PublishedLine(i) == "Published metric " \o MetricName(i)

\* every byte of the stream has been sent and read
Drained == sent = StreamLen(stream) /\ rx = <<>>

\* a step of Tick that changes something
TickStep == sent' = sent /\ clock' = clock /\ elapsed' <= elapsed /\ vars' # vars

\* the pattern of metric i occurs in the datagram d
Carries(d, i) == memmem(ToBuf(d), Len(d), METRICS[i + 1]) # 0 - 1

\* the checksum of the datagram in the buffer does not match
Mismatch ==
  x25(buffer, position - 2) # buffer[position - 1] * 256 + buffer[position - 2]

\* C1: a stream of noise, one well-formed datagram and noise, read with no
\* time passing, ends with exactly that datagram framed and accepted and the
\* framer in WaitStart (Done is the pass before process_message runs).
C1_EmbeddedDatagramFramed ==
  (stream.head \in OneDatagram /\ clock = 0 /\ Drained)
    => (state = Done \/ (state = WaitStart /\ accepted = <<DIn>>))

\* C2: after datagram D1, garbage and datagram D2, two datagrams are accepted,
\* the pass for D2 publishes only metrics D2 carries, with D2's values, and
\* leaves the framer in WaitStart with cursor 0.
C2_SecondDatagramIndependent ==
  (stream.head \in TwoDatagrams /\ clock = 0 /\ Len(accepted) = 2
     /\ PublishedLine(1) \in Range(out))
    => /\ accepted = <<DIn, DOut>>
       /\ \A i \in 0..(METRIC_LENGTH - 1) :
            PublishedLine(i) \in Range(out) => Carries(DOut, i)
       /\ regs[1] = 300000
       /\ state = WaitStart /\ position = 0

\* C3: a pass of process_message over a datagram whose checksum does not
\* match writes no register, extracts no metric and ends in WaitStart with
\* the cursor 0 and the watchdog restarted.
C3_MismatchDiscards ==
  [][(state = Done /\ elapsed <= READ_TIMEOUT * 1000 /\ Mismatch /\ TickStep)
       => /\ regs' = regs
          /\ values' = values
          /\ accepted' = accepted
          /\ max_read' = 0 - 1
          /\ out' = <<MismatchLine, "State is 'wait_for_start_sequence'.">>
          /\ state' = WaitStart /\ position' = 0 /\ elapsed' = 0]_vars

\* a pass has just rejected a datagram by its checksum
C3_Witness == MismatchLine \in Range(out) /\ state = WaitStart /\ accepted = <<>>

\* C4 as claimed: the overflow reset comes when the bytes after the 8-byte
\* start marker number capacity - 3.
C4_OverflowAtPayloadCount ==
  [][(TickStep /\ OverflowLine \in Range(out'))
       => (position + (Len(rx) - Len(rx'))) - START_SEQUENCE_LENGTH = BUFFER_SIZE - 3]_vars

\* C4 as amended: the overflow reset comes exactly when the buffer, start
\* marker included, holds capacity - 3 bytes and another byte is available;
\* that byte is left unread, and accumulation never goes past that count.
C4_OverflowAtBufferCount ==
  [][TickStep =>
       /\ OverflowLine \in Range(out')
            => /\ state = Accumulate
               /\ position + (Len(rx) - Len(rx')) = BUFFER_SIZE - 3
               /\ rx' # <<>>
               /\ state' = WaitStart /\ position' = 0
       /\ (state = Accumulate /\ elapsed <= READ_TIMEOUT * 1000
             /\ position = BUFFER_SIZE - 3 /\ rx # <<>>)
            => OverflowLine \in Range(out')
       /\ state' = Accumulate => position' <= BUFFER_SIZE - 3]_vars

\* a pass has just reset the framer for overflow
C4_Witness == OverflowLine \in Range(out) /\ state = WaitStart /\ position = 0

\* C5: position is at most BUFFER_SIZE - 3 in Accumulate and at most
\* BUFFER_SIZE everywhere, and every state that appends has its write index
\* position, and the indices of the bytes still to come, inside the buffer.
C5_PositionInBounds ==
  /\ position \in 0..BUFFER_SIZE
  /\ state = WaitStart => position < START_SEQUENCE_LENGTH
  /\ state = Accumulate => position <= BUFFER_SIZE - 3
  /\ state = AwaitTail => position + bytes_until_checksum <= BUFFER_SIZE
  /\ state # Done => position < BUFFER_SIZE

\* a datagram that fills the buffer to its last byte is complete
C5_Witness == state = Done /\ position = BUFFER_SIZE

\* C6: a pass that accepts a datagram publishes every metric the datagram
\* carries, and for a metric whose pattern does not occur in the datagram it
\* prints no publish line and leaves the register slot as it was.
C6_AbsentMetricSkipped ==
  [][(TickStep /\ accepted' # accepted)
       => \A i \in 0..(METRIC_LENGTH - 1) :
            IF Carries(Last(accepted'), i)
              THEN PublishedLine(i) \in Range(out')
              ELSE PublishedLine(i) \notin Range(out') /\ regs'[i] = regs[i]]_vars

\* C7: the pass that extracts the metrics of an accepted datagram of length
\* L reads no buffer byte at an index of L or more, nor of BUFFER_SIZE or more.
C7_CursorInsideDatagram ==
  (accepted # <<>> /\ max_read >= 0)
    => (max_read < Len(Last(accepted)) /\ max_read < BUFFER_SIZE)

\* C8: with loop() running and time passing, the framer is again and again
\* in WaitStart with cursor 0, whatever the stream left it waiting for; the
\* overflow, mismatch and timeout resets each lead there, and some step that
\* changes the state is always possible.
C8_AlwaysBackToWaitStart ==
  /\ []<>(state = WaitStart /\ position = 0)
  /\ \A line \in {OverflowLine, MismatchLine, TimeoutLine} :
       (line \in Range(out)) ~> (state = WaitStart /\ position = 0)
  /\ [](ENABLED <<NextLive>>_vars)

\* the watchdog has ended the wait for bytes that never came
C8_Witness ==
  /\ Drained /\ TimeoutLine \in Range(out)
  /\ state = WaitStart /\ position = 0
  /\ buffer[START_SEQUENCE_LENGTH + 1] = 27

\* C9 as claimed: a pass prints the timeout line and resets exactly when
\* more than READ_TIMEOUT seconds have passed since the last reset and the
\* state is not WaitStart.
C9_WatchdogOutsideWaitStart ==
  [][TickStep
       => (TimeoutLine \in Range(out')
             <=> (elapsed > READ_TIMEOUT * 1000 /\ state # WaitStart))]_vars

\* C9 as amended: a pass prints the timeout line and resets exactly when
\* more than READ_TIMEOUT seconds have passed since the last reset, whatever
\* the state; the reset restarts the watchdog and zeroes the cursor before
\* wait_for_start_sequence runs in the same pass.
C9_WatchdogInEveryState ==
  [][TickStep
       => /\ TimeoutLine \in Range(out') <=> elapsed > READ_TIMEOUT * 1000
          /\ TimeoutLine \in Range(out')
               => /\ elapsed' = 0
                  /\ state' \in {WaitStart, Accumulate}
                  /\ position' <= Len(rx) - Len(rx')]_vars

\* the watchdog has zeroed the cursor of a start marker that was matched in
\* part: the bytes sent so far are the marker's first ones and all were read
C9_Witness ==
  /\ TimeoutLine \in Range(out)
  /\ stream.head = DIn /\ sent \in 1..(START_SEQUENCE_LENGTH - 1) /\ rx = <<>>
  /\ state = WaitStart /\ position = 0

\* the values[] entry for 916 * 10^-1 in unit 0x1E
PowerIn916 == [value |-> <<148, 3, 0, 0, 0, 0, 0, 0>>, unit |-> 30, scaler |-> 0 - 1]

\* C10 as claimed: from the datagram whose bytes after the power_in pattern
\* are 01 00 01 00 01 1E 01 FF 59 00 03 94 the pass extracts value 916,
\* unit 0x1E, scaler -1 and writes 91600 to register slot 0.
C10_ExampleBytes ==
  (accepted # <<>> /\ Last(accepted) = DExample /\ FoundLine(0) \in Range(out))
    => (values[0] = PowerIn916 /\ regs[0] = 91600)

\* C10 as amended: from the datagram whose bytes after the power_in pattern
\* are 01 01 62 1E 52 FF 54 00 03 94 the pass extracts value 916, unit 0x1E,
\* scaler -1 and writes 91600 to register slot 0.
C10_WellFormedFields ==
  (accepted # <<>> /\ Last(accepted) = DIn /\ FoundLine(0) \in Range(out))
    => (values[0] = PowerIn916 /\ regs[0] = 91600)

\* the pass over that datagram has published power_in
C10_Witness ==
  /\ accepted # <<>> /\ Last(accepted) = DIn
  /\ FoundLine(0) \in Range(out) /\ PublishedLine(0) \in Range(out)
  /\ regs[0] = 91600

\* the number a normalised little-endian byte sequence stands for
RECURSIVE BnToNat(_)
BnToNat(a) == IF a = <<>> THEN 0 ELSE Head(a) + 256 * BnToNat(Tail(a))

\* the int64_t in a values[] entry, for a small magnitude
Decoded(u) == IF I64Negative(u) THEN 0 - BnToNat(I64Magnitude(u)) ELSE BnToNat(I64Magnitude(u))

RECURSIVE Pow10Nat(_)
Pow10Nat(k) == IF k = 0 THEN 1 ELSE 10 * Pow10Nat(k - 1)

\* v * 10^(s + 3) rounded to the nearest integer, halves away from zero
Rounded(v, s) ==
  LET mag == IF v >= 0 THEN v ELSE 0 - v
      r == IF s + 3 >= 0 THEN mag * Pow10Nat(s + 3)
           ELSE (2 * mag + Pow10Nat(0 - (s + 3))) \div (2 * Pow10Nat(0 - (s + 3)))
  IN IF v >= 0 THEN r ELSE 0 - r

\* C11: the pass that accepts a datagram with power_in writes to register
\* slot 0 the decoded value times 10^(scaler + 3), rounded to the nearest
\* integer (within the bounds that number fits 32 bits as it is).
C11_PublishedRounded ==
  (accepted # <<>> /\ FoundLine(0) \in Range(out))
    => regs[0] = Rounded(Decoded(values[0].value), values[0].scaler)

\* the pass starts with the watchdog not expired
InTime == elapsed <= READ_TIMEOUT * 1000

C13_DoneIsValidatedOnce ==
  [][(TickStep /\ state = Done)
       => /\ state' = WaitStart
          /\ \/ Len(accepted') = Len(accepted) + 1 /\ MismatchLine \notin Range(out')
             \/ accepted' = accepted /\ MismatchLine \in Range(out')]_vars

\* the first bytes of buffer are the start marker
HoldsStartSequence(buf) ==
  \A i \in 0..(START_SEQUENCE_LENGTH - 1) : buf[i] = START_SEQUENCE[i + 1]

\* C14 as claimed: the pass that goes from WaitStart to Accumulate leaves
\* the frame buffer with length 0.
C14_ClearedOnStart ==
  [][(TickStep /\ state = WaitStart /\ state' = Accumulate) => position' = 0]_vars

\* C14 as amended: the pass that goes from WaitStart to Accumulate leaves
\* the start marker in the frame buffer, which has length 8; every byte of
\* buffer behind it is as it was before the pass.
C14_StartSequenceKept ==
  [][(TickStep /\ state = WaitStart /\ state' = Accumulate)
       => /\ position' = START_SEQUENCE_LENGTH
          /\ HoldsStartSequence(buffer')
          /\ \A i \in START_SEQUENCE_LENGTH..(BUFFER_SIZE - 1) : buffer'[i] = buffer[i]]_vars

\* accumulation begins over the bytes of an earlier datagram
C14_Witness ==
  /\ state = Accumulate /\ position = START_SEQUENCE_LENGTH
  /\ buffer[START_SEQUENCE_LENGTH] # 0

\* the cursor after the bytes, from the cursor pos: one more for a byte that
\* equals the marker byte at the cursor, 0 for any other; 8 ends the matching
RECURSIVE Cursor(_, _)
Cursor(pos, bytes) ==
  IF bytes = <<>> \/ pos = START_SEQUENCE_LENGTH THEN pos
  ELSE Cursor(IF Head(bytes) = START_SEQUENCE[pos + 1] THEN pos + 1 ELSE 0, Tail(bytes))

\* C15: in WaitStart the cursor stays in 0..7 and the bytes matched so far
\* are the marker's first ones; a pass in WaitStart moves the cursor byte by
\* byte, one up on the marker byte at the cursor and to 0 on any other byte,
\* reads on until the input is exhausted, and goes to Accumulate exactly when
\* the cursor reaches 8.
C15_CursorRule ==
  /\ [](state = WaitStart
          => /\ position \in 0..(START_SEQUENCE_LENGTH - 1)
             /\ \A i \in 0..(position - 1) : buffer[i] = START_SEQUENCE[i + 1])
  /\ [][(TickStep /\ state = WaitStart)
          => LET consumed == SubSeq(rx, 1, Len(rx) - Len(rx'))
                 c == Cursor(IF InTime THEN position ELSE 0, consumed)
             IN /\ (state' = Accumulate) <=> (c = START_SEQUENCE_LENGTH)
                /\ position' = c
                /\ c < START_SEQUENCE_LENGTH => (rx' = <<>> /\ state' = WaitStart)]_vars

\* five bytes 1B in a row have been read: the fifth zeroed the cursor and
\* was not taken as the first byte of a marker
C15_Witness ==
  /\ state = WaitStart /\ position = 0 /\ rx = <<>> /\ clock = 0
  /\ sent = 5 /\ \A i \in 1..5 : stream.head[i] = 27

\* the machine after setup() with the bytes all in the receive queue
Delivered(bytes) ==
  [state |-> WaitStart, buffer |-> [i \in 0..(BUFFER_SIZE - 1) |-> 0], position |-> 0,
   bytes_until_checksum |-> 0, elapsed |-> 0, rx |-> bytes, out |-> <<>>,
   regs |-> [i \in 0..3 |-> 0], values |-> StackGarbage, max_read |-> 0 - 1,
   accepted |-> <<>>]

\* passes of loop() with no time passing until the bytes are read and processed
RECURSIVE RunAll(_)
RunAll(m) ==
  IF m.rx = <<>> /\ m.state # Done THEN m
  ELSE Bind(run_current_state(m, UB0), LAMBDA m1 : RunAll(m1))

\* how the framer stands after the first k bytes of a stream, delivered at once
AtOnce ==
  [st \in Streams |-> [k \in 0..StreamLen(st) |-> RunAll(Delivered(SubSeq(st.head, 1, k)))]]

\* C16: a pass with no input byte and the watchdog not expired, in
\* WaitStart, Accumulate or AwaitTail, changes nothing of the framer and no
\* register; and whenever the bytes sent so far have been read and processed
\* with no time passing, the framer stands as it does when the same bytes are
\* delivered at once, however the bytes were split over the passes.
C16_SplitIndependent ==
  /\ [][(TickStep /\ rx = <<>> /\ InTime /\ state # Done)
          => UNCHANGED <<state, buffer, position, bytes_until_checksum, elapsed, regs,
                         values, accepted>>]_vars
  /\ [](clock = 0 /\ rx = <<>> /\ state # Done
          => LET one == AtOnce[stream][sent]
             IN /\ state = one.state /\ position = one.position
                /\ bytes_until_checksum = one.bytes_until_checksum
                /\ buffer = one.buffer /\ accepted = one.accepted)

\* two datagrams that arrived in pieces of at most MaxRx bytes are framed
C16_Witness ==
  /\ clock = 0 /\ Drained /\ state = WaitStart
  /\ accepted = <<DIn, DOut>>

\* the buffer as process_message saw it, in the state its reset leaves
Processed == [buffer |-> buffer, position |-> Len(Last(accepted))]

\* the walk process_message made for metric i of the datagram just accepted
Walked(i) ==
  ParseMetric(Processed, memmem(buffer, Len(Last(accepted)), METRICS[i + 1]), METRICS[i + 1], 0)

\* the low nibble of the value header of a walk that read payload bytes
HeaderLength(pv) == LowNibble(Deref(Processed, pv.last_read - pv.passes, 0))

\* C17: for every metric found in an accepted datagram the value loop reads
\* at most 15 payload bytes, and exactly length - 1 of them when the low
\* nibble of the value header is length >= 1.
C17_ValueLoopBounded ==
  (accepted # <<>> /\ state = WaitStart /\ position = 0 /\ out # <<>>)
    => \A i \in 0..(METRIC_LENGTH - 1) :
         Carries(Last(accepted), i)
           => /\ Walked(i).passes <= 15
              /\ (Walked(i).passes > 0 /\ HeaderLength(Walked(i)) >= 1)
                   => Walked(i).passes = HeaderLength(Walked(i)) - 1

\* the number of stream bytes the program has read
Consumed == sent - Len(rx)

\* C18: whenever the state is Done the buffer holds L = position bytes with
\* 16 <= L <= BUFFER_SIZE, the start marker in [0, 8), the end marker in
\* [L-8, L-3) and in [L-3, L) the three bytes of the input that came after the
\* end marker; and the pass that validates it accepts the L bytes exactly when
\* the CRC over [0, L-2) equals byte L-2 + 256 * byte L-1, and reports a
\* mismatch otherwise.
C18_DoneLayout ==
  /\ [](state = Done
          => /\ position >= START_SEQUENCE_LENGTH + END_SEQUENCE_LENGTH + 3
             /\ position <= BUFFER_SIZE
             /\ HoldsStartSequence(buffer)
             /\ \A j \in 1..END_SEQUENCE_LENGTH : buffer[position - 9 + j] = END_SEQUENCE[j]
             /\ \A j \in 1..3 : buffer[position - 4 + j] = StreamAt(stream, Consumed - 3 + j))
  /\ [][(TickStep /\ state = Done /\ InTime)
          => /\ accepted' = Append(accepted, Frame(Machine)) <=> ~Mismatch
             /\ accepted' = accepted <=> Mismatch
             /\ MismatchLine \in Range(out') <=> Mismatch]_vars

\* the second datagram of a stream is complete in the buffer
C18_Witness == state = Done /\ Frame(Machine) = DOut

\* C19: the registers change only in a pass that runs process_message on a
\* datagram whose checksum matches; a pass that prints the overflow, the
\* timeout or the mismatch line, every pass that starts in WaitStart,
\* Accumulate or AwaitTail and every step that is not a pass leave all four
\* slots as they were; and slot 3 is never written.
C19_RegistersOnlyOnSuccess ==
  /\ [][regs' # regs
          => /\ TickStep /\ state = Done /\ InTime /\ ~Mismatch
             /\ accepted' = Append(accepted, Frame(Machine))]_vars
  /\ [][(\E line \in {OverflowLine, TimeoutLine, MismatchLine} : line \in Range(out') /\ TickStep)
          => regs' = regs]_vars
  /\ [](regs[3] = 0)

\* both datagrams of a stream have been published into slots 0..2
C19_Witness ==
  /\ accepted = <<DIn, DOut>> /\ regs[0] = 91600 /\ regs[1] = 300000 /\ regs[3] = 0

\* where the value header of power_in stands in a datagram of DecodeStreams
ValueHeaderAt == START_SEQUENCE_LENGTH + Len(METRICS[1]) + Len(Fields(30, 0)) + 1

\* the payload of that value field
PayloadOf(d) == SubSeq(d, ValueHeaderAt + 1, ValueHeaderAt + LowNibble(d[ValueHeaderAt]) - 1)

\* the payload bytes as the low bytes of a 64-bit word, zeros above them
ZeroExtended(p) == [j \in 1..8 |-> IF j <= Len(p) THEN p[Len(p) + 1 - j] ELSE 0]

\* C20: the 64-bit value decoded from a value field is its payload bytes,
\* big-endian, with zeros above them, whatever the type bits of the header
\* say; so a header tagged signed and one tagged unsigned give the same value,
\* and a payload of fewer than 8 bytes gives a value that is not negative.
C20_TypeBitsIgnored ==
  (accepted # <<>> /\ FoundLine(0) \in Range(out))
    => /\ values[0].value = ZeroExtended(PayloadOf(Last(accepted)))
       /\ Len(PayloadOf(Last(accepted))) < 8 => ~I64Negative(values[0].value)

\* a signed value field whose payload has the top bit set was decoded as 200
C20_Witness ==
  /\ accepted = <<DTyped(SignedType, <<200>>)>>
  /\ FoundLine(0) \in Range(out)
  /\ values[0].value = <<200, 0, 0, 0, 0, 0, 0, 0>>

=============================================================================
